---- MODULE Spec2Model ----
(***************************************************************************)
(* Backup / restore orchestration of pterodactyl-backups.py.               *)
(*                                                                         *)
(* The state is the host the script acts on (the entries under the         *)
(* volumes root, the docker containers and which of them run, the content  *)
(* of every volume directory) and, per invocation of backup_server or      *)
(* restore_server, its local variables, its position and the sequence of   *)
(* external commands it has issued so far.                                 *)
(***************************************************************************)
EXTENDS Integers, Sequences, FiniteSets, TLC

\* Largest number of entries a volume directory holds initially.
MaxEntries == 2

\* The two places an operation is started from: a scheduler worker thread
\* and a one-shot command line process.
Procs == {"sched", "cli"}

\* Names are sequences of characters, so that "starts with" is computed.
ServerIDs == {<<"a">>, <<"b">>}
Names == {<<"a", "1">>, <<"a", "2">>, <<"b", "a">>}
NoName == <<>>

\* What an entry of a volume directory can be: os.path.isfile, os.path.isdir,
\* or neither (a FIFO, a socket, a device node, a dangling symbolic link).
Kinds == {"file", "dir", "other"}

\* Exit statuses of the backup client.
Codes == {0, 1}

VARIABLES
    dirs,                   \* entries under VOLUMES_PATH
    containers,             \* names listed by docker ps -a
    running,                \* names listed by docker ps
    content,                \* content[d][k]: entries of kind k directly under d
    pc,                     \* position of each invocation
    op,                     \* "none", "backup" or "restore"
    server_id,              \* argument server_id
    shutdown,               \* config.get("shutdown", False)
    container_path,         \* local container_path
    container_was_running,  \* local container_was_running
    returncode,             \* process.returncode of the backup client, -1: none
    stderr,                 \* whether the backup client wrote to stderr
    pending,                \* outcome of the try body while finally runs
    items,                  \* entries of os.listdir still to be visited
    ret,                    \* "none", "True", "False" or "raised"
    errors,                 \* messages logged with logger.error, in order
    log,                    \* external commands and calls issued, in order
    config,                 \* config["servers"].items(), in order
    cursor,                 \* how many of them schedule_jobs has visited
    jobs,                   \* ids of the jobs added to the scheduler, in order
    scheduler,              \* "none", "created", "running" or "shutdown"
    shutdown_flag,          \* local shutdown_flag of main
    shutdown_calls,         \* calls of scheduler.shutdown() so far
    signals,                \* SIGINT / SIGTERM delivered so far
    main_pc,                \* position of the main thread in main
    handler,                \* positions of the activations of shutdown()
    raising,                \* a SystemExit is propagating in the main thread
    last_job,               \* what the last job that ended handed back
    ignore_paths,           \* config.get("ignore_paths", [])
    exclude_args,           \* local exclude_args of backup_server
    argv,                   \* the words the shell hands to the backup client
    stdout,                 \* output of proxmox-backup-client snapshots
    lines,                  \* stdout.splitlines() still to be visited
    snapshots               \* local snapshots of list_snapshots

\* backup_server, restore_server and the host they act on
calls == <<dirs, containers, running, content, pc, op, server_id, shutdown,
           container_path, container_was_running, returncode, stderr, pending,
           items, ret, errors, log>>

\* schedule_jobs and the scheduler mode of main
mainvars == <<config, cursor, jobs, scheduler, shutdown_flag, shutdown_calls,
              signals, main_pc, handler, raising, last_job>>

\* the exclude arguments of backup_server
argvars == <<ignore_paths, exclude_args, argv>>

\* list_snapshots
listvars == <<stdout, lines, snapshots>>

aux == <<mainvars, argvars, listvars>>

vars == <<calls, aux>>

env == <<dirs, containers, running, content>>

----------------------------------------------------------------------------
\* Helpers

Ev(c, a, n, r) == [call |-> c, action |-> a, name |-> n, ok |-> r]

startswith(name, prefix) ==
    /\ Len(name) >= Len(prefix)
    /\ SubSeq(name, 1, Len(prefix)) = prefix

EmptyDir == [k \in Kinds |-> 0]

Total(bag) == bag["file"] + bag["dir"] + bag["other"]

Contents == {b \in [Kinds -> 0..MaxEntries] : Total(b) <= MaxEntries}

\* glob.glob(f"{VOLUMES_PATH}/{server_id}*")
glob(sid) == {d \in dirs : startswith(d, sid)}

\* Faulty variant: get_container_path without the len(matches) > 1 test
get_container_path_first(sid) ==
    LET matches == glob(sid) IN
    IF Cardinality(matches) = 0
    THEN [ok |-> FALSE, errors |-> <<"No directory found">>, path |-> NoName]
    ELSE [ok |-> TRUE, errors |-> <<>>, path |-> CHOOSE m \in matches : TRUE]

\* get_container_path: the unique match, or ValueError with its message
get_container_path(sid) ==
    LET matches == glob(sid) IN
    IF Cardinality(matches) > 1
    THEN [ok |-> FALSE, errors |-> <<"Multiple directories found">>, path |-> NoName]
    ELSE IF Cardinality(matches) = 0
    THEN [ok |-> FALSE, errors |-> <<"No directory found">>, path |-> NoName]
    ELSE [ok |-> TRUE, errors |-> <<>>, path |-> CHOOSE m \in matches : TRUE]

\* docker ps [-a] --format '{{.Names}}' | grep '^{server_id}': the matching
\* lines; none when docker itself fails (grep then reads nothing, exits 1).
docker_ps_grep(sid, all, daemon_up) ==
    IF daemon_up
    THEN {c \in (IF all THEN containers ELSE running) : startswith(c, sid)}
    ELSE {}

\* The running containers after docker <action> <name> exited 0.
docker_effect(action, name) ==
    IF action = "start" THEN running \cup {name} ELSE running \ {name}

\* docker kill of a container that does not run exits non-zero.
docker_can_succeed(action, name) ==
    action = "kill" => name \in running

\* manage_container(server_id, action).  daemon_up and cmd_ok are the
\* outcomes of the two external commands it runs.
manage_container(sid, action, daemon_up, cmd_ok) ==
    LET containers_found == docker_ps_grep(sid, TRUE, daemon_up)
        called == <<Ev("manage_container", action, NoName, TRUE),
                    Ev("docker ps", "-a", NoName, daemon_up)>>
    IN
    IF containers_found = {}
    THEN [result |-> FALSE, running |-> running, events |-> called,
          errors |-> <<"Failed to get container name">>]
    ELSE IF Cardinality(containers_found) > 1
    THEN [result |-> FALSE, running |-> running, events |-> called,
          errors |-> <<"Multiple containers found">>]
    ELSE LET container_name == CHOOSE c \in containers_found : TRUE
             done == cmd_ok /\ docker_can_succeed(action, container_name)
         IN  [result |-> done,
              running |-> IF done THEN docker_effect(action, container_name)
                          ELSE running,
              events |-> Append(called, Ev("docker", action, container_name, done)),
              errors |-> IF done THEN <<>> ELSE <<"Command failed">>]

\* Faulty variant: a failing query is taken for a running container
is_running_unless_known(sid, daemon_up) ==
    ~daemon_up \/ docker_ps_grep(sid, FALSE, daemon_up) # {}

\* Line 150 and lines 155-157: container_was_running from the output of
\* docker ps | grep; a non-zero exit of the pipeline counts as not running.
is_running(sid, daemon_up) == docker_ps_grep(sid, FALSE, daemon_up) # {}

\* Faulty variant: the result of the stop is not looked at
stop_aborts_never(result) == FALSE

\* Lines 152-154: a failed stop ends backup_server with False
stop_aborts(result) == ~result

\* Faulty variant: the result of the kill is not looked at
kill_aborts_never(result) == FALSE

\* Lines 218-220: a failed kill ends restore_server with False
kill_aborts(result) == ~result

\* Faulty variant: output on the error stream counts as a failure
success_quiet(rc, wrote_stderr) == rc = 0 /\ ~wrote_stderr

\* Line 190: success = process.returncode == 0
success(rc, wrote_stderr) == rc = 0

\* Faulty variant: the restart sits after the return of a good backup, not in finally
restart_wanted_on_success(p) ==
    shutdown[p] /\ container_was_running[p] /\ pending[p] = "True"

\* Faulty variant: the restart forgets what the query saw
restart_wanted_if_shutdown(p) == shutdown[p]

\* Faulty variant: the restart is unconditional
restart_wanted_always(p) == TRUE

\* Line 200: the condition under which finally restarts the container
restart_wanted(p) == shutdown[p] /\ container_was_running[p]

\* Lines 196-202: what backup_server hands back once finally has run
backup_result(outcome, restarted) == outcome

\* Faulty variant: restore_server restarts the container the way
\* backup_server does
restore_finally_start(sid, daemon_up, cmd_ok) ==
    manage_container(sid, "start", daemon_up, cmd_ok)

\* Lines 252-253: the finally clause of restore_server is "pass"
restore_finally(sid, daemon_up, cmd_ok) ==
    [result |-> TRUE, running |-> running, events |-> <<>>, errors |-> <<>>]

\* What restore_server hands to its caller, by the place it leaves from:
\* line 215 (no volume directory), 220 (kill), 233 (deletion),
\* 247 and 250 (the restore command).
restore_return(cause) == IF cause = "restored" THEN "True" ELSE "False"

\* Lines 227-230: the entries the wipe loop removes
\* (isfile: os.unlink, isdir: shutil.rmtree, anything else: nothing)
remover(kind) ==
    IF kind = "file" THEN "unlink" ELSE IF kind = "dir" THEN "rmtree" ELSE "none"

Bool(b) == IF b THEN "True" ELSE "False"

----------------------------------------------------------------------------
\* The host and the invocations before anything ran.  Every volume
\* directory starts with the same content; each then changes on its own.

\* No invocation of backup_server or restore_server has begun
NoCall ==
    /\ pc = [p \in Procs |-> "idle"]
    /\ op = [p \in Procs |-> "none"]
    /\ server_id = [p \in Procs |-> NoName]
    /\ shutdown = [p \in Procs |-> FALSE]
    /\ container_path = [p \in Procs |-> NoName]
    /\ container_was_running = [p \in Procs |-> FALSE]
    /\ returncode = [p \in Procs |-> -1]
    /\ stderr = [p \in Procs |-> FALSE]
    /\ pending = [p \in Procs |-> "none"]
    /\ items = [p \in Procs |-> EmptyDir]
    /\ ret = [p \in Procs |-> "none"]
    /\ errors = [p \in Procs |-> <<>>]
    /\ log = [p \in Procs |-> <<>>]

\* main has not reached the scheduler mode (line 365)
NoMain ==
    /\ config = <<>>
    /\ cursor = 0
    /\ jobs = <<>>
    /\ scheduler = "none"
    /\ shutdown_flag = FALSE
    /\ shutdown_calls = 0
    /\ signals = 0
    /\ main_pc = "none"
    /\ handler = <<>>
    /\ raising = FALSE
    /\ last_job = "none"

\* No backup command is being built
NoArgs ==
    /\ ignore_paths = <<>>
    /\ exclude_args = <<>>
    /\ argv = <<>>

\* No listing is under way
NoList ==
    /\ stdout = <<>>
    /\ lines = <<>>
    /\ snapshots = <<>>

Init ==
    /\ dirs \in SUBSET Names
    /\ containers \in SUBSET Names
    /\ running \in SUBSET containers
    /\ \E c \in Contents : content = [d \in Names |-> c]
    /\ NoCall
    /\ NoMain
    /\ NoArgs
    /\ NoList

\* Entry of backup_server or restore_server: fresh locals, then lines
\* 135-141 / 209-215, the resolution of the volume directory.
enter(p, which, sid, sd) ==
    LET r == get_container_path(sid) IN
    /\ pc[p] \in {"idle", "done"}
    /\ op' = [op EXCEPT ![p] = which]
    /\ server_id' = [server_id EXCEPT ![p] = sid]
    /\ shutdown' = [shutdown EXCEPT ![p] = sd]
    /\ container_path' = [container_path EXCEPT ![p] = r.path]
    /\ container_was_running' = [container_was_running EXCEPT ![p] = FALSE]
    /\ returncode' = [returncode EXCEPT ![p] = -1]
    /\ stderr' = [stderr EXCEPT ![p] = FALSE]
    /\ pending' = [pending EXCEPT ![p] = "none"]
    /\ items' = [items EXCEPT ![p] = EmptyDir]
    /\ log' = [log EXCEPT ![p] = <<>>]
    /\ errors' = [errors EXCEPT ![p] = r.errors]
    /\ ret' = [ret EXCEPT ![p] = IF r.ok THEN "none" ELSE "False"]
    /\ pc' = [pc EXCEPT ![p] =
                IF ~r.ok THEN "done"
                ELSE IF which = "backup" THEN "b_check" ELSE "r_kill"]
    /\ UNCHANGED aux
    /\ UNCHANGED env

\* backup_server, lines 130-141
backup_begin(p) ==
    \E sid \in ServerIDs, sd \in BOOLEAN : enter(p, "backup", sid, sd)

\* backup_server, lines 143-150 and 155-157: the is-running query
backup_check(p) ==
    /\ pc[p] = "b_check"
    /\ IF ~shutdown[p]
       THEN /\ pc' = [pc EXCEPT ![p] = "b_run"]
            /\ UNCHANGED <<container_was_running, log>>
       ELSE \E daemon_up \in BOOLEAN :
              LET r == is_running(server_id[p], daemon_up) IN
              /\ container_was_running' =
                     [container_was_running EXCEPT ![p] = r]
              /\ log' = [log EXCEPT ![p] =
                            Append(@, Ev("docker ps", "", NoName, daemon_up))]
              /\ pc' = [pc EXCEPT ![p] = IF r THEN "b_stop" ELSE "b_run"]
    /\ UNCHANGED aux
    /\ UNCHANGED <<env, op, server_id, shutdown, container_path, returncode,
                   stderr, pending, items, ret, errors>>

\* backup_server, lines 151-154: stop the running container or give up
backup_stop(p) ==
    /\ pc[p] = "b_stop"
    /\ \E daemon_up \in BOOLEAN, cmd_ok \in BOOLEAN :
         LET m == manage_container(server_id[p], "stop", daemon_up, cmd_ok) IN
         /\ running' = m.running
         /\ log' = [log EXCEPT ![p] = @ \o m.events]
         /\ IF ~stop_aborts(m.result)
            THEN /\ pc' = [pc EXCEPT ![p] = "b_run"]
                 /\ errors' = [errors EXCEPT ![p] = @ \o m.errors]
                 /\ UNCHANGED ret
            ELSE /\ pc' = [pc EXCEPT ![p] = "done"]
                 /\ ret' = [ret EXCEPT ![p] = "False"]
                 /\ errors' = [errors EXCEPT ![p] =
                                 @ \o m.errors \o <<"Failed to stop container">>]
    /\ UNCHANGED aux
    /\ UNCHANGED <<dirs, containers, content, op, server_id, shutdown,
                   container_path, container_was_running, returncode, stderr,
                   pending, items>>

\* backup_server, lines 159-196: the body of the try, up to its return
backup_run(p) ==
    /\ pc[p] = "b_run"
    /\ \E raised \in BOOLEAN, rc \in Codes, wrote \in BOOLEAN :
         /\ log' = [log EXCEPT ![p] =
                       Append(@, Ev("backup", "client", container_path[p],
                                    ~raised /\ rc = 0))]
         /\ IF raised
            THEN /\ pending' = [pending EXCEPT ![p] = "raised"]
                 /\ UNCHANGED <<returncode, stderr, errors>>
            ELSE /\ returncode' = [returncode EXCEPT ![p] = rc]
                 /\ stderr' = [stderr EXCEPT ![p] = wrote]
                 /\ pending' = [pending EXCEPT ![p] = Bool(success(rc, wrote))]
                 /\ errors' = [errors EXCEPT ![p] =
                       IF success(rc, wrote) THEN @ ELSE Append(@, "Backup failed")]
    /\ pc' = [pc EXCEPT ![p] = "b_finally"]
    /\ UNCHANGED aux
    /\ UNCHANGED <<env, op, server_id, shutdown, container_path,
                   container_was_running, items, ret>>

\* backup_server, lines 198-202: the finally clause, then the return
backup_finally(p) ==
    /\ pc[p] = "b_finally"
    /\ IF restart_wanted(p)
       THEN \E daemon_up \in BOOLEAN, cmd_ok \in BOOLEAN :
              LET m == manage_container(server_id[p], "start", daemon_up, cmd_ok)
              IN  /\ running' = m.running
                  /\ log' = [log EXCEPT ![p] = @ \o m.events]
                  /\ errors' = [errors EXCEPT ![p] =
                         IF m.result THEN @
                         ELSE @ \o m.errors \o <<"Failed to start container">>]
                  /\ ret' = [ret EXCEPT ![p] = backup_result(pending[p], m.result)]
       ELSE /\ ret' = [ret EXCEPT ![p] = backup_result(pending[p], TRUE)]
            /\ UNCHANGED <<running, log, errors>>
    /\ pc' = [pc EXCEPT ![p] = "done"]
    /\ UNCHANGED aux
    /\ UNCHANGED <<dirs, containers, content, op, server_id, shutdown,
                   container_path, container_was_running, returncode, stderr,
                   pending, items>>

----------------------------------------------------------------------------
\* restore_server, lines 204-215
restore_begin(p) ==
    \E sid \in ServerIDs : enter(p, "restore", sid, FALSE)

\* restore_server, lines 217-220: kill the container or give up
restore_kill(p) ==
    /\ pc[p] = "r_kill"
    /\ \E daemon_up \in BOOLEAN, cmd_ok \in BOOLEAN :
         LET m == manage_container(server_id[p], "kill", daemon_up, cmd_ok) IN
         /\ running' = m.running
         /\ log' = [log EXCEPT ![p] = @ \o m.events]
         /\ IF ~kill_aborts(m.result)
            THEN /\ pc' = [pc EXCEPT ![p] = "r_list"]
                 /\ errors' = [errors EXCEPT ![p] = @ \o m.errors]
                 /\ UNCHANGED ret
            ELSE /\ pc' = [pc EXCEPT ![p] = "done"]
                 /\ ret' = [ret EXCEPT ![p] = restore_return("kill")]
                 /\ errors' = [errors EXCEPT ![p] =
                                 @ \o m.errors \o <<"Failed to kill container">>]
    /\ UNCHANGED aux
    /\ UNCHANGED <<dirs, containers, content, op, server_id, shutdown,
                   container_path, container_was_running, returncode, stderr,
                   pending, items>>

\* restore_server, line 224: os.listdir(container_path), which may raise
restore_listdir(p) ==
    /\ pc[p] = "r_list"
    /\ \E raised \in BOOLEAN, daemon_up \in BOOLEAN, cmd_ok \in BOOLEAN :
         LET f == restore_finally(server_id[p], daemon_up, cmd_ok)
             listed == Ev("listdir", "", container_path[p], ~raised)
         IN
         IF raised
         THEN /\ pc' = [pc EXCEPT ![p] = "done"]
              /\ ret' = [ret EXCEPT ![p] = "raised"]
              /\ log' = [log EXCEPT ![p] = Append(@, listed) \o f.events]
              /\ running' = f.running
              /\ UNCHANGED items
         ELSE /\ pc' = [pc EXCEPT ![p] = "r_delete"]
              /\ items' = [items EXCEPT ![p] = content[container_path[p]]]
              /\ log' = [log EXCEPT ![p] = Append(@, listed)]
              /\ UNCHANGED <<ret, running>>
    /\ UNCHANGED aux
    /\ UNCHANGED <<dirs, containers, content, op, server_id, shutdown,
                   container_path, container_was_running, returncode, stderr,
                   pending, errors>>

\* restore_server, lines 224-233: one turn of the wipe loop.  An entry that
\* is gone by the time it is visited is neither a file nor a directory.
restore_delete(p) ==
    /\ pc[p] = "r_delete"
    /\ \E k \in Kinds, fails \in BOOLEAN, daemon_up \in BOOLEAN,
          cmd_ok \in BOOLEAN :
         LET d == container_path[p]
             how == IF content[d][k] > 0 THEN remover(k) ELSE "none"
             f == restore_finally(server_id[p], daemon_up, cmd_ok)
         IN
         /\ items[p][k] > 0
         /\ items' = [items EXCEPT ![p][k] = @ - 1]
         /\ IF how = "none"
            THEN UNCHANGED <<content, running, log, pc, ret, errors>>
            ELSE IF fails
            THEN /\ pc' = [pc EXCEPT ![p] = "done"]
                 /\ ret' = [ret EXCEPT ![p] = restore_return("delete")]
                 /\ errors' = [errors EXCEPT ![p] =
                                 Append(@, "Failed to delete")]
                 /\ log' = [log EXCEPT ![p] =
                               Append(@, Ev(how, k, d, FALSE)) \o f.events]
                 /\ running' = f.running
                 /\ UNCHANGED content
            ELSE /\ content' = [content EXCEPT ![d][k] = @ - 1]
                 /\ log' = [log EXCEPT ![p] = Append(@, Ev(how, k, d, TRUE))]
                 /\ UNCHANGED <<running, pc, ret, errors>>
    /\ UNCHANGED aux
    /\ UNCHANGED <<dirs, containers, op, server_id, shutdown,
                   container_path, container_was_running, returncode, stderr,
                   pending>>

\* restore_server, lines 235-250: the restore command, once the loop is over
restore_run(p) ==
    /\ pc[p] = "r_delete"
    /\ Total(items[p]) = 0
    /\ \E cmd_ok \in BOOLEAN, daemon_up \in BOOLEAN, start_ok \in BOOLEAN :
         LET f == restore_finally(server_id[p], daemon_up, start_ok) IN
         /\ log' = [log EXCEPT ![p] =
               Append(@, Ev("restore", "client", container_path[p], cmd_ok))
                 \o f.events]
         /\ running' = f.running
         /\ ret' = [ret EXCEPT ![p] =
                      restore_return(IF cmd_ok THEN "restored" ELSE "command")]
         /\ errors' = [errors EXCEPT ![p] =
                         IF cmd_ok THEN @
                         ELSE @ \o <<"Command failed", "Restore failed">>]
    /\ pc' = [pc EXCEPT ![p] = "done"]
    /\ UNCHANGED aux
    /\ UNCHANGED <<dirs, containers, content, op, server_id, shutdown,
                   container_path, container_was_running, returncode, stderr,
                   pending, items>>

\* The calls made without a timeout, when the command never ends: the
\* is-running query (line 149, check_output), the docker ps -a of
\* manage_container (line 117, check_output) and the backup client (lines
\* 180-181, Popen.communicate).  The invocation stays in the call for good.
blocks(p) ==
    /\ \/ /\ pc[p] = "b_check" /\ shutdown[p]
          /\ log' = [log EXCEPT ![p] =
                        Append(@, Ev("hang", "docker ps", NoName, FALSE))]
       \/ /\ \/ pc[p] \in {"b_stop", "r_kill"}
             \/ pc[p] = "b_finally" /\ restart_wanted(p)
          /\ log' = [log EXCEPT ![p] =
                        Append(@, Ev("hang", "docker ps -a", NoName, FALSE))]
       \/ /\ pc[p] = "b_run"
          /\ log' = [log EXCEPT ![p] =
                        Append(@, Ev("backup", "client", container_path[p], FALSE))]
    /\ pc' = [pc EXCEPT ![p] = "blocked"]
    /\ UNCHANGED aux
    /\ UNCHANGED <<env, op, server_id, shutdown, container_path,
                   container_was_running, returncode, stderr, pending, items,
                   ret, errors>>

----------------------------------------------------------------------------
step(p) ==
    \/ backup_begin(p)
    \/ backup_check(p)
    \/ backup_stop(p)
    \/ backup_run(p)
    \/ backup_finally(p)
    \/ restore_begin(p)
    \/ restore_kill(p)
    \/ restore_listdir(p)
    \/ restore_delete(p)
    \/ restore_run(p)
    \/ blocks(p)

\* One invocation at a time: the command line process.
Next == step("cli")

Spec == Init /\ [][Next]_vars

\* The scheduler's worker runs backup_server only (schedule_jobs, line 272);
\* the command line runs either (main, lines 346 and 357).
sched_step ==
    \/ backup_begin("sched")
    \/ backup_check("sched")
    \/ backup_stop("sched")
    \/ backup_run("sched")
    \/ backup_finally("sched")
    \/ blocks("sched")

\* A host on which both servers resolve, for the runs of two invocations
\* side by side.
InitConc ==
    /\ Init
    /\ dirs = {<<"a", "1">>, <<"b", "a">>}
    /\ containers = dirs
    /\ running = containers
    /\ content[<<"a", "1">>]["file"] = 1
    /\ Total(content[<<"a", "1">>]) = 1

NextConc == step("cli") \/ sched_step

SpecConc == InitConc /\ [][NextConc]_vars

----------------------------------------------------------------------------
\* schedule_jobs, lines 255-281

\* Schedule strings: five fields, the same with tabs, with blanks around
\* and doubled, four fields, six fields, none, and five fields of which one
\* is no cron expression.
Schedules ==
    { <<"0", " ", "3", " ", "*", " ", "*", " ", "*">>,
      <<"0", "\t", "3", "\t", "*", "\t", "*", "\t", "*">>,
      <<" ", "0", " ", " ", "3", " ", "*", " ", "*", " ", "*", " ">>,
      <<"0", " ", "3", " ", "*", " ", "*">>,
      <<"0", " ", "3", " ", "*", " ", "*", " ", "*", " ", "*">>,
      <<>>,
      <<"0", " ", "3", " ", "*", " ", "*", " ", "x">> }

\* What str.split() and str.strip() take for white space
whitespace == {" ", "\t", "\n"}

\* Length of the longest prefix of s free of white space
word_len(s) ==
    IF \E i \in 1..Len(s) : s[i] \in whitespace
    THEN (CHOOSE i \in 1..Len(s) :
            /\ s[i] \in whitespace
            /\ \A j \in 1..(i - 1) : s[j] \notin whitespace) - 1
    ELSE Len(s)

\* Line 262: str.split() without argument: the maximal runs of characters
\* other than white space, in order; no empty string among them.
RECURSIVE split(_)
split(s) ==
    IF s = <<>> THEN <<>>
    ELSE IF Head(s) \in whitespace THEN split(Tail(s))
    ELSE LET n == word_len(s)
         IN  <<SubSeq(s, 1, n)>> \o split(SubSeq(s, n + 1, Len(s)))

\* Line 268: CronTrigger raises ValueError for a field it cannot parse.  Of
\* the characters used here, the digits and the star make up expressions.
CronTrigger(cron_expr) ==
    \A i \in 1..Len(cron_expr) :
      \A j \in 1..Len(cron_expr[i]) : cron_expr[i][j] \in {"0", "3", "*"}

\* Faulty variant: an invalid schedule ends the loop
break_loop(i, n) == n

\* Line 266: continue, on to the next server
continue_loop(i, n) == i + 1

\* Lines 271-278: add_job on a scheduler that has not started
add_job(js, id) == Append(js, id)

\* The configurations: both servers, in either order, with any schedules
Configs ==
    { <<[id |-> o[1], schedule |-> f[o[1]]], [id |-> o[2], schedule |-> f[o[2]]]>> :
        o \in {<<(<<"a">>), (<<"b">>)>>, <<(<<"b">>), (<<"a">>)>>},
        f \in [ServerIDs -> Schedules] }

\* Lines 263-266: a schedule that does not split into five fields
schedule_jobs_skip ==
    /\ main_pc = "schedule_jobs"
    /\ cursor < Len(config)
    /\ Len(split(config[cursor + 1].schedule)) # 5
    /\ cursor' = continue_loop(cursor, Len(config))
    /\ UNCHANGED <<config, jobs, scheduler, shutdown_flag, shutdown_calls,
                   signals, main_pc, handler, raising, last_job>>
    /\ UNCHANGED <<calls, argvars, listvars>>

\* Lines 268-279: the trigger is built and the job added
schedule_jobs_add ==
    /\ main_pc = "schedule_jobs"
    /\ cursor < Len(config)
    /\ LET cron_expr == split(config[cursor + 1].schedule) IN
         /\ Len(cron_expr) = 5
         /\ CronTrigger(cron_expr)
    /\ jobs' = add_job(jobs, config[cursor + 1].id)
    /\ cursor' = cursor + 1
    /\ UNCHANGED <<config, scheduler, shutdown_flag, shutdown_calls,
                   signals, main_pc, handler, raising, last_job>>
    /\ UNCHANGED <<calls, argvars, listvars>>

\* Lines 280-281: CronTrigger raised; the error is logged and the loop goes on
schedule_jobs_except ==
    /\ main_pc = "schedule_jobs"
    /\ cursor < Len(config)
    /\ LET cron_expr == split(config[cursor + 1].schedule) IN
         /\ Len(cron_expr) = 5
         /\ ~CronTrigger(cron_expr)
    /\ cursor' = cursor + 1
    /\ UNCHANGED <<config, jobs, scheduler, shutdown_flag, shutdown_calls,
                   signals, main_pc, handler, raising, last_job>>
    /\ UNCHANGED <<calls, argvars, listvars>>

\* Line 387-388: schedule_jobs returns to main
schedule_jobs_return ==
    /\ main_pc = "schedule_jobs"
    /\ cursor >= Len(config)
    /\ main_pc' = "start"
    /\ UNCHANGED <<config, cursor, jobs, scheduler, shutdown_flag,
                   shutdown_calls, signals, handler, raising, last_job>>
    /\ UNCHANGED <<calls, argvars, listvars>>

\* A host on which both servers resolve to a volume directory and to a
\* running container
BothServers ==
    /\ dirs = {<<"a", "1">>, <<"b", "a">>}
    /\ containers = dirs
    /\ running = containers
    /\ content = [d \in Names |-> EmptyDir]

\* main at line 387, the scheduler created and the handlers installed
InitReg ==
    /\ BothServers
    /\ NoCall
    /\ config \in Configs
    /\ cursor = 0
    /\ jobs = <<>>
    /\ scheduler = "created"
    /\ shutdown_flag = FALSE
    /\ shutdown_calls = 0
    /\ signals = 0
    /\ main_pc = "schedule_jobs"
    /\ handler = <<>>
    /\ raising = FALSE
    /\ last_job = "none"
    /\ NoArgs
    /\ NoList

NextReg ==
    \/ schedule_jobs_skip
    \/ schedule_jobs_add
    \/ schedule_jobs_except
    \/ schedule_jobs_return

SpecReg == InitReg /\ [][NextReg]_vars

----------------------------------------------------------------------------
\* The scheduler mode of main, lines 364-393

\* Largest number of SIGINT / SIGTERM delivered to the process.
MaxSignals == 2

\* Faulty variant: a job that fails takes the scheduler down, the way the
\* command line ends on a failed backup
job_outcome_exit(r, s) == IF r = "True" THEN s ELSE "shutdown"

\* Lines 271-273: the job is backup_server itself; what it returns or
\* raises stays with the worker that ran it and the scheduler goes on.
job_outcome(r, s) == s

\* Faulty variant: the handler without its test
already_shutting_down_never(flag) == FALSE

\* Lines 371-372: if shutdown_flag: return
already_shutting_down(flag) == flag

Top(st) == st[Len(st)]

Pop(st) == SubSeq(st, 1, Len(st) - 1)

\* Line 390: scheduler.start(), which keeps the main thread until it is left
\* by an exception
start ==
    /\ main_pc = "start" /\ handler = <<>> /\ ~raising
    /\ scheduler' = "running"
    /\ main_pc' = "running"
    /\ UNCHANGED <<config, cursor, jobs, shutdown_flag, shutdown_calls,
                   signals, handler, raising, last_job>>
    /\ UNCHANGED <<calls, argvars, listvars>>

\* Line 391: scheduler.start() is left by a KeyboardInterrupt or SystemExit
\* that no handler raised
start_raises ==
    /\ main_pc = "running" /\ handler = <<>> /\ ~raising
    /\ main_pc' = "except"
    /\ UNCHANGED <<config, cursor, jobs, scheduler, shutdown_flag,
                   shutdown_calls, signals, handler, raising, last_job>>
    /\ UNCHANGED <<calls, argvars, listvars>>

\* Lines 392-393: shutdown(None, None) unless the flag is set; main ends when
\* the call is not made or has returned
except_clause ==
    /\ handler = <<>> /\ ~raising
    /\ \/ /\ main_pc = "except"
          /\ IF ~shutdown_flag
             THEN /\ handler' = <<"test">>
                  /\ main_pc' = "except_call"
             ELSE /\ main_pc' = "exited"
                  /\ UNCHANGED handler
       \/ /\ main_pc = "except_call"
          /\ main_pc' = "exited"
          /\ UNCHANGED handler
    /\ UNCHANGED <<config, cursor, jobs, scheduler, shutdown_flag,
                   shutdown_calls, signals, raising, last_job>>
    /\ UNCHANGED <<calls, argvars, listvars>>

\* Lines 383-384: SIGINT or SIGTERM arrives; shutdown runs in the main
\* thread, on top of whatever the thread was doing, a handler included.
signal ==
    /\ signals < MaxSignals
    /\ main_pc \in {"start", "running", "except", "except_call"}
    /\ ~raising
    /\ signals' = signals + 1
    /\ handler' = Append(handler, "test")
    /\ UNCHANGED <<config, cursor, jobs, scheduler, shutdown_flag,
                   shutdown_calls, main_pc, raising, last_job>>
    /\ UNCHANGED <<calls, argvars, listvars>>

\* Lines 371-372
handler_test ==
    /\ handler # <<>> /\ ~raising
    /\ Top(handler) = "test"
    /\ handler' = IF already_shutting_down(shutdown_flag)
                  THEN Pop(handler)
                  ELSE Append(Pop(handler), "set")
    /\ UNCHANGED <<config, cursor, jobs, scheduler, shutdown_flag,
                   shutdown_calls, signals, main_pc, raising, last_job>>
    /\ UNCHANGED <<calls, argvars, listvars>>

\* Line 373
handler_set ==
    /\ handler # <<>> /\ ~raising
    /\ Top(handler) = "set"
    /\ shutdown_flag' = TRUE
    /\ handler' = Append(Pop(handler), "shutdown")
    /\ UNCHANGED <<config, cursor, jobs, scheduler, shutdown_calls, signals,
                   main_pc, raising, last_job>>
    /\ UNCHANGED <<calls, argvars, listvars>>

\* Lines 375-378: scheduler.shutdown(); on a scheduler that is not running
\* it raises, and the bare except passes.
handler_shutdown ==
    /\ handler # <<>> /\ ~raising
    /\ Top(handler) = "shutdown"
    /\ shutdown_calls' = shutdown_calls + 1
    /\ scheduler' = IF scheduler = "running" THEN "shutdown" ELSE scheduler
    /\ handler' = Append(Pop(handler), "exit")
    /\ UNCHANGED <<config, cursor, jobs, shutdown_flag, signals, main_pc,
                   raising, last_job>>
    /\ UNCHANGED <<calls, argvars, listvars>>

\* Line 379: sys.exit(0) raises SystemExit
handler_exit ==
    /\ handler # <<>> /\ ~raising
    /\ Top(handler) = "exit"
    /\ raising' = TRUE
    /\ UNCHANGED <<config, cursor, jobs, scheduler, shutdown_flag,
                   shutdown_calls, signals, main_pc, handler, last_job>>
    /\ UNCHANGED <<calls, argvars, listvars>>

\* The SystemExit on its way up: out of an activation of shutdown, unless
\* the activation is inside the try of line 375, whose bare except takes
\* it; then out of main, unless main is inside the try of line 389.
unwind ==
    /\ raising
    /\ IF handler # <<>>
       THEN IF Top(handler) = "shutdown"
            THEN /\ handler' = Append(Pop(handler), "exit")
                 /\ raising' = FALSE
                 /\ UNCHANGED main_pc
            ELSE /\ handler' = Pop(handler)
                 /\ UNCHANGED <<raising, main_pc>>
       ELSE /\ main_pc' = IF main_pc = "running" THEN "except" ELSE "exited"
            /\ raising' = FALSE
            /\ UNCHANGED handler
    /\ UNCHANGED <<config, cursor, jobs, scheduler, shutdown_flag,
                   shutdown_calls, signals, last_job>>
    /\ UNCHANGED <<calls, argvars, listvars>>

\* Line 272: the running scheduler hands backup_server(server_id, settings)
\* of a job to its worker
fire(id) ==
    /\ scheduler = "running"
    /\ pc["sched"] = "idle"
    /\ \E i \in 1..Len(jobs) : jobs[i] = id
    /\ \E sd \in BOOLEAN : enter("sched", "backup", id, sd)

\* The worker inside backup_server
job_step ==
    \/ backup_check("sched")
    \/ backup_stop("sched")
    \/ backup_run("sched")
    \/ backup_finally("sched")
    \/ blocks("sched")

\* backup_server has returned or raised in the worker
job_return ==
    /\ pc["sched"] = "done"
    /\ pc' = [pc EXCEPT !["sched"] = "idle"]
    /\ last_job' = ret["sched"]
    /\ scheduler' = job_outcome(ret["sched"], scheduler)
    /\ UNCHANGED <<config, cursor, jobs, shutdown_flag, shutdown_calls,
                   signals, main_pc, handler, raising>>
    /\ UNCHANGED <<env, op, server_id, shutdown, container_path,
                   container_was_running, returncode, stderr, pending, items,
                   ret, errors, log>>
    /\ UNCHANGED <<argvars, listvars>>

\* main at line 388: both servers have their job
InitSched ==
    /\ BothServers
    /\ NoCall
    /\ config \in {c \in Configs :
                     \A k \in 1..2 : c[k].schedule =
                        <<"0", " ", "3", " ", "*", " ", "*", " ", "*">>}
    /\ cursor = Len(config)
    /\ jobs = <<config[1].id, config[2].id>>
    /\ scheduler = "created"
    /\ shutdown_flag = FALSE
    /\ shutdown_calls = 0
    /\ signals = 0
    /\ main_pc = "start"
    /\ handler = <<>>
    /\ raising = FALSE
    /\ last_job = "none"
    /\ NoArgs
    /\ NoList

NextSched ==
    \/ start
    \/ start_raises
    \/ except_clause
    \/ signal
    \/ handler_test
    \/ handler_set
    \/ handler_shutdown
    \/ handler_exit
    \/ unwind
    \/ \E id \in ServerIDs : fire(id)
    \/ job_step
    \/ job_return

SpecSched == InitSched /\ [][NextSched]_vars

----------------------------------------------------------------------------
\* The exclude arguments of the backup command, lines 159-181

\* Largest number of entries of ignore_paths.
MaxPaths == 2

\* Relative paths: a name, a name in a directory, a name with a blank in it
RelPaths == { <<"c">>, <<"d">>, <<"t", "/", "l">>, <<"N", " ", "W">> }

ignore_paths_lists ==
    UNION {[1..n -> RelPaths] : n \in 0..MaxPaths}

\* The word --exclude
exclude == <<"-", "-", "e", "x", "c", "l", "u", "d", "e">>

\* Lines 170-176: the words of the command that come before the exclude
\* arguments; none of them holds a blank outside quotes, and they are
\* written here as the single word proxmox-backup-client.
client == <<"p", "b", "c">>

\* Line 165: os.path.join of two components
os_path_join(a, b) ==
    IF b # <<>> /\ Head(b) = "/" THEN b
    ELSE IF a = <<>> \/ a[Len(a)] = "/" THEN a \o b
    ELSE a \o <<"/">> \o b

\* Line 180: " ".join(cmd)
RECURSIVE join(_)
join(words) ==
    IF words = <<>> THEN <<>>
    ELSE IF Len(words) = 1 THEN words[1]
    ELSE words[1] \o <<" ">> \o join(Tail(words))

\* Line 180, shell=True: the shell cuts the unquoted command line into words
\* at blanks.
shell_words(line) == split(line)

\* Lines 164-166: one turn of the loop over ignore_paths
exclude_extend ==
    /\ pc["cli"] = "b_run" /\ argv = <<>>
    /\ Len(exclude_args) < 2 * Len(ignore_paths)
    /\ LET rel_path == ignore_paths[Len(exclude_args) \div 2 + 1]
           abs_path == os_path_join(container_path["cli"], rel_path)
       IN  exclude_args' = exclude_args \o <<exclude, abs_path>>
    /\ UNCHANGED <<ignore_paths, argv>>
    /\ UNCHANGED <<calls, mainvars, listvars>>

\* Lines 169-180: the command is put together, joined and handed to the shell
popen ==
    /\ pc["cli"] = "b_run" /\ argv = <<>>
    /\ Len(exclude_args) = 2 * Len(ignore_paths)
    /\ LET cmd == <<client>> \o exclude_args
       IN  argv' = shell_words(join(cmd))
    /\ UNCHANGED <<ignore_paths, exclude_args>>
    /\ UNCHANGED <<calls, mainvars, listvars>>

\* backup_server at line 159 in the command line process, the volume
\* directory resolved; an absent ignore_paths is the empty list (line 162).
InitArgs ==
    /\ BothServers
    /\ \E sid \in ServerIDs :
         /\ pc = [p \in Procs |-> IF p = "cli" THEN "b_run" ELSE "idle"]
         /\ op = [p \in Procs |-> IF p = "cli" THEN "backup" ELSE "none"]
         /\ server_id = [p \in Procs |-> IF p = "cli" THEN sid ELSE NoName]
         /\ container_path =
              [p \in Procs |-> IF p = "cli" THEN get_container_path(sid).path
                               ELSE NoName]
    /\ shutdown = [p \in Procs |-> FALSE]
    /\ container_was_running = [p \in Procs |-> FALSE]
    /\ returncode = [p \in Procs |-> -1]
    /\ stderr = [p \in Procs |-> FALSE]
    /\ pending = [p \in Procs |-> "none"]
    /\ items = [p \in Procs |-> EmptyDir]
    /\ ret = [p \in Procs |-> "none"]
    /\ errors = [p \in Procs |-> <<>>]
    /\ log = [p \in Procs |-> <<>>]
    /\ NoMain
    /\ ignore_paths \in ignore_paths_lists
    /\ exclude_args = <<>>
    /\ argv = <<>>
    /\ NoList

NextArgs == exclude_extend \/ popen

SpecArgs == InitArgs /\ [][NextArgs]_vars

----------------------------------------------------------------------------
\* list_snapshots, lines 283-307

\* Largest number of characters the snapshots command writes.
MaxOut == 4

\* What the snapshots command can write: the two server ids, blanks and
\* line ends, in any arrangement
Outputs == UNION {[1..n -> {"a", "b", " ", "\n"}] : n \in 0..MaxOut}

\* Line 303: str.splitlines(); a line end closes a line, so that no empty
\* line follows the last one.
RECURSIVE splitlines(_)
splitlines(s) ==
    IF s = <<>> THEN <<>>
    ELSE IF \E i \in 1..Len(s) : s[i] = "\n"
    THEN LET n == CHOOSE i \in 1..Len(s) :
                    s[i] = "\n" /\ \A j \in 1..(i - 1) : s[j] # "\n"
         IN  <<SubSeq(s, 1, n - 1)>> \o splitlines(SubSeq(s, n + 1, Len(s)))
    ELSE <<s>>

RECURSIVE lstrip(_)
lstrip(s) ==
    IF s # <<>> /\ Head(s) \in whitespace THEN lstrip(Tail(s)) ELSE s

RECURSIVE rstrip(_)
rstrip(s) ==
    IF s # <<>> /\ s[Len(s)] \in whitespace
    THEN rstrip(SubSeq(s, 1, Len(s) - 1)) ELSE s

\* Line 305: str.strip()
strip(s) == rstrip(lstrip(s))

\* Faulty variant: only a line that begins with the id is taken
contains_at_start(sid, line) == startswith(line, sid)

\* Line 304: server_id in line
contains(sid, line) ==
    \E i \in 1..(Len(line) - Len(sid) + 1) :
      SubSeq(line, i, i + Len(sid) - 1) = sid

\* Lines 295-303: the snapshots command is run; a non-zero exit status is
\* logged and gives the empty list.
list_query ==
    /\ pc["cli"] = "l_query"
    /\ \E rc \in Codes, out \in Outputs :
         /\ returncode' = [returncode EXCEPT !["cli"] = rc]
         /\ stdout' = out
         /\ IF rc # 0
            THEN /\ errors' = [errors EXCEPT !["cli"] =
                                 Append(@, "Failed to list snapshots")]
                 /\ pc' = [pc EXCEPT !["cli"] = "done"]
                 /\ UNCHANGED lines
            ELSE /\ lines' = splitlines(out)
                 /\ pc' = [pc EXCEPT !["cli"] = "l_filter"]
                 /\ UNCHANGED errors
    /\ UNCHANGED snapshots
    /\ UNCHANGED <<env, op, server_id, shutdown, container_path,
                   container_was_running, stderr, pending, items, ret, log>>
    /\ UNCHANGED <<mainvars, argvars>>

\* Lines 303-305: one turn of the loop over the lines
list_filter ==
    /\ pc["cli"] = "l_filter"
    /\ lines # <<>>
    /\ LET line == Head(lines) IN
         snapshots' = IF contains(server_id["cli"], line)
                      THEN Append(snapshots, strip(line))
                      ELSE snapshots
    /\ lines' = Tail(lines)
    /\ UNCHANGED stdout
    /\ UNCHANGED <<calls, mainvars, argvars>>

\* Line 307
list_return ==
    /\ pc["cli"] = "l_filter"
    /\ lines = <<>>
    /\ pc' = [pc EXCEPT !["cli"] = "done"]
    /\ UNCHANGED <<env, op, server_id, shutdown, container_path,
                   container_was_running, returncode, stderr, pending, items,
                   ret, errors, log>>
    /\ UNCHANGED <<mainvars, argvars, listvars>>

\* list_snapshots(server_id) at line 287 in the command line process
InitList ==
    /\ BothServers
    /\ \E sid \in ServerIDs :
         server_id = [p \in Procs |-> IF p = "cli" THEN sid ELSE NoName]
    /\ pc = [p \in Procs |-> IF p = "cli" THEN "l_query" ELSE "idle"]
    /\ op = [p \in Procs |-> IF p = "cli" THEN "list" ELSE "none"]
    /\ shutdown = [p \in Procs |-> FALSE]
    /\ container_path = [p \in Procs |-> NoName]
    /\ container_was_running = [p \in Procs |-> FALSE]
    /\ returncode = [p \in Procs |-> -1]
    /\ stderr = [p \in Procs |-> FALSE]
    /\ pending = [p \in Procs |-> "none"]
    /\ items = [p \in Procs |-> EmptyDir]
    /\ ret = [p \in Procs |-> "none"]
    /\ errors = [p \in Procs |-> <<>>]
    /\ log = [p \in Procs |-> <<>>]
    /\ NoMain
    /\ NoArgs
    /\ NoList

NextList == list_query \/ list_filter \/ list_return

SpecList == InitList /\ [][NextList]_vars

----------------------------------------------------------------------------
\* Reading the command log of an invocation

At(l, c, a) == {i \in 1..Len(l) : l[i].call = c /\ l[i].action = a}

OkAt(l, c, a) == {i \in At(l, c, a) : l[i].ok}

Deletes(l) == {i \in 1..Len(l) : l[i].call \in {"unlink", "rmtree"}}

Logged(p, msg) == \E i \in 1..Len(errors[p]) : errors[p][i] = msg

active(p) == pc[p] \notin {"idle", "done"}

DirMatches(p) == {d \in dirs : startswith(d, server_id[p])}

ContainerMatches(p) == {c \in containers : startswith(c, server_id[p])}

----------------------------------------------------------------------------
\* C1: in a backup with shutdown set whose query saw the container running,
\* the backup command is only ever invoked after a stop that succeeded, and
\* once such a backup has ended (returned or raised) a start of the container
\* was issued after the backup command, whatever the command did.
C1_StopBeforeBackupStartAfter ==
    \A p \in Procs :
      (op[p] = "backup" /\ shutdown[p] /\ container_was_running[p]) =>
        /\ \A j \in At(log[p], "backup", "client") :
             \E i \in OkAt(log[p], "docker", "stop") : i < j
        /\ (pc[p] = "done" /\ OkAt(log[p], "docker", "stop") # {}) =>
             \E j \in At(log[p], "backup", "client") :
               \E k \in At(log[p], "manage_container", "start") : j < k

\* A backup that stopped the container, whose command raised, has ended with
\* the start issued.
C1_Witness ==
    \E p \in Procs :
      /\ op[p] = "backup" /\ pc[p] = "done" /\ ret[p] = "raised"
      /\ OkAt(log[p], "docker", "stop") # {}
      /\ At(log[p], "manage_container", "start") # {}

\* C5: in a backup with shutdown set, once a stop was attempted and did not
\* succeed the backup has ended with False, and neither the backup command
\* nor a start was issued.
C5_FailedStopAborts ==
    \A p \in Procs :
      (/\ op[p] = "backup"
       /\ At(log[p], "manage_container", "stop") # {}
       /\ OkAt(log[p], "docker", "stop") = {}) =>
        /\ pc[p] = "done"
        /\ ret[p] = "False"
        /\ At(log[p], "backup", "client") = {}
        /\ At(log[p], "manage_container", "start") = {}
        /\ At(log[p], "docker", "start") = {}

\* The stop command itself ran and failed, and the backup ended there.
C5_Witness ==
    \E p \in Procs :
      /\ op[p] = "backup" /\ pc[p] = "done" /\ container_was_running[p]
      /\ At(log[p], "docker", "stop") # {}
      /\ OkAt(log[p], "docker", "stop") = {}
      /\ Logged(p, "Failed to stop container")

\* The part of C6 about one state: after a query that saw no running
\* container, the invocation holds no stop and no start.
C6_NoStopNoStart ==
    \A p \in Procs :
      (/\ op[p] = "backup" /\ shutdown[p]
       /\ At(log[p], "docker ps", "") # {}
       /\ ~container_was_running[p]) =>
        \A i \in 1..Len(log[p]) :
          log[p][i].call \notin {"manage_container", "docker"}

\* The part of C6 about one step: no step of such an invocation changes
\* which containers run.
C6_RunningKept ==
    \A p \in Procs :
      (/\ op[p] = "backup" /\ shutdown[p]
       /\ pc[p] \in {"b_check", "b_run", "b_finally"}
       /\ pc'[p] # pc[p]
       /\ ~container_was_running'[p]) =>
        running' = running

\* C6: in a backup with shutdown set whose query saw the container not
\* running, no stop and no start is issued, and the set of running
\* containers is left as it was.
C6_NotRunningLeftAlone == [](C6_NoStopNoStart) /\ [][C6_RunningKept]_vars

\* Such a backup ran to its end on a host where the server's container exists
\* and is stopped.
C6_Witness ==
    \E p \in Procs :
      /\ op[p] = "backup" /\ shutdown[p] /\ pc[p] = "done"
      /\ At(log[p], "docker ps", "") # {}
      /\ At(log[p], "backup", "client") # {}
      /\ ContainerMatches(p) # {}
      /\ ContainerMatches(p) \cap running = {}

\* The part of C7 about one state: the only command issued is the backup.
C7_OnlyBackupCommand ==
    \A p \in Procs :
      (op[p] = "backup" /\ ~shutdown[p]) =>
        \A i \in 1..Len(log[p]) : log[p][i].call = "backup"

\* The part of C7 about one step.
C7_RunningKept ==
    \A p \in Procs :
      (op[p] = "backup" /\ ~shutdown[p] /\ active(p) /\ pc'[p] # pc[p]) =>
        running' = running

\* C7: a backup without shutdown issues no is-running query, no stop, no
\* kill and no start, and leaves the set of running containers as it was.
C7_NoShutdownNoContainerCommand ==
    [](C7_OnlyBackupCommand) /\ [][C7_RunningKept]_vars

\* Such a backup ended while the server's container was running.
C7_Witness ==
    \E p \in Procs :
      /\ op[p] = "backup" /\ ~shutdown[p] /\ pc[p] = "done"
      /\ At(log[p], "backup", "client") # {}
      /\ ContainerMatches(p) \cap running # {}

\* C8: a backup whose command ran to an exit status returns True exactly
\* when that status is 0, whatever the restart did and whatever was written
\* to the error stream.
C8_ReturnIsExitStatus ==
    \A p \in Procs :
      (op[p] = "backup" /\ pc[p] = "done" /\ returncode[p] # -1) =>
        /\ ret[p] \in {"True", "False"}
        /\ ret[p] = "True" <=> returncode[p] = 0

\* Exit status 0 with output on the error stream and a restart that failed:
\* the backup returned True.
C8_Witness ==
    \E p \in Procs :
      /\ op[p] = "backup" /\ pc[p] = "done" /\ returncode[p] = 0
      /\ stderr[p]
      /\ Logged(p, "Failed to start container")
      /\ ret[p] = "True"

\* C10: a backup whose server id has no or several directories under the
\* volumes root has ended with False and has issued no command at all.
C10_ResolutionFailureNoEffect ==
    \A p \in Procs :
      (op[p] = "backup" /\ Cardinality(DirMatches(p)) # 1) =>
        /\ pc[p] = "done"
        /\ ret[p] = "False"
        /\ log[p] = <<>>

\* A backup with shutdown set ended on two matching directories.
C10_Witness ==
    \E p \in Procs :
      /\ op[p] = "backup" /\ shutdown[p] /\ pc[p] = "done"
      /\ Cardinality(DirMatches(p)) = 2
      /\ ContainerMatches(p) \cap running # {}

----------------------------------------------------------------------------
\* The part of C2 about one step: the step that invokes the restore command
\* starts from an empty volume directory.
C2_WipedWhenRestoring ==
    \A p \in Procs :
      (/\ At(log[p], "restore", "client") = {}
       /\ At(log'[p], "restore", "client") # {}) =>
        Total(content[container_path[p]]) = 0

\* The part of C2 about one state: after a deletion that failed, the restore
\* has ended with False and the restore command was not invoked.
C2_FailedDeleteAborts ==
    \A p \in Procs :
      (op[p] = "restore" /\ Logged(p, "Failed to delete")) =>
        /\ pc[p] = "done"
        /\ ret[p] = "False"
        /\ At(log[p], "restore", "client") = {}

\* C2: the restore command is invoked only when every entry directly under
\* the volume directory, of whatever kind, was removed; one failed deletion
\* ends the restore with False, the command never run.
C2_RestoreOnlyAfterFullWipe ==
    [](C2_FailedDeleteAborts) /\ [][C2_WipedWhenRestoring]_vars

\* The part of C3 about one state: every deletion comes after a kill that
\* succeeded, and after a kill that failed the restore has ended with False
\* without listing, deleting or restoring anything.
C3_KillFirst ==
    \A p \in Procs :
      op[p] = "restore" =>
        /\ \A j \in Deletes(log[p]) :
             \E i \in OkAt(log[p], "docker", "kill") : i < j
        /\ (/\ At(log[p], "manage_container", "kill") # {}
            /\ OkAt(log[p], "docker", "kill") = {}) =>
             /\ pc[p] = "done"
             /\ ret[p] = "False"
             /\ Deletes(log[p]) = {}
             /\ At(log[p], "listdir", "") = {}
             /\ At(log[p], "restore", "client") = {}

\* The part of C3 about one step: the content of the volume directories
\* changes only in a restore whose kill succeeded.
C3_ContentKept ==
    content' # content =>
      \E p \in Procs :
        op[p] = "restore" /\ OkAt(log[p], "docker", "kill") # {}

\* C3: a restore deletes nothing before a kill of the container has
\* succeeded; when the kill fails, or the container does not resolve to
\* exactly one, it returns False with the directory untouched and the
\* restore command not invoked.
C3_NoDeleteBeforeKill == [](C3_KillFirst) /\ [][C3_ContentKept]_vars

\* A restore ended with False because two containers start with the server
\* id, with entries still in the volume directory.
C3_Witness ==
    \E p \in Procs :
      /\ op[p] = "restore" /\ pc[p] = "done" /\ ret[p] = "False"
      /\ At(log[p], "manage_container", "kill") # {}
      /\ OkAt(log[p], "docker", "kill") = {}
      /\ Total(content[container_path[p]]) > 0
      /\ Cardinality(ContainerMatches(p)) = 2

\* C4: no two invocations are in progress on the same server id.
C4_MutualExclusion ==
    \A p, q \in Procs :
      (p # q /\ active(p) /\ active(q)) => server_id[p] # server_id[q]

\* The containers the manage_container call at position i of l was shown.
Listed(p, i) == IF log[p][i + 1].ok THEN ContainerMatches(p) ELSE {}

McCalls(l) == {i \in 1..Len(l) : l[i].call = "manage_container"}

\* C9: the volume directory resolves to the one entry that starts with the
\* server id, and fails with "No directory found" for none and "Multiple
\* directories found" for several; manage_container runs its docker command
\* on the one container listed for the server id, and runs none, logging
\* "Failed to get container name" for no line and "Multiple containers found"
\* for several.
C9_UniqueResolution ==
    \A p \in Procs :
      op[p] # "none" =>
        LET D == DirMatches(p)
            l == log[p]
        IN
        /\ Cardinality(D) = 1 =>
             /\ D = {container_path[p]}
             /\ ~Logged(p, "No directory found")
             /\ ~Logged(p, "Multiple directories found")
        /\ Cardinality(D) = 0 =>
             /\ pc[p] = "done" /\ ret[p] = "False"
             /\ container_path[p] = NoName
             /\ errors[p] = <<"No directory found">>
        /\ Cardinality(D) > 1 =>
             /\ pc[p] = "done" /\ ret[p] = "False"
             /\ container_path[p] = NoName
             /\ errors[p] = <<"Multiple directories found">>
        /\ \A i \in McCalls(l) :
             IF Cardinality(Listed(p, i)) = 1
             THEN /\ Len(l) >= i + 2
                  /\ l[i + 2].call = "docker"
                  /\ l[i + 2].action = l[i].action
                  /\ Listed(p, i) = {l[i + 2].name}
             ELSE Len(l) >= i + 2 => l[i + 2].call # "docker"
        /\ Logged(p, "Failed to get container name") <=>
             \E i \in McCalls(l) : Listed(p, i) = {}
        /\ Logged(p, "Multiple containers found") <=>
             \E i \in McCalls(l) : Cardinality(Listed(p, i)) > 1

\* A backup resolved its directory among others of another server and then
\* refused to pick one of two containers.
C9_Witness ==
    \E p \in Procs :
      /\ op[p] = "backup" /\ pc[p] = "done"
      /\ Cardinality(DirMatches(p)) = 1
      /\ Cardinality(dirs) = 2
      /\ Logged(p, "Multiple containers found")
      /\ At(log[p], "docker", "stop") = {}

----------------------------------------------------------------------------
\* The part of C11 about one state: a restore holds no start, neither as a
\* call of manage_container nor as a docker command.
C11_NoStart ==
    \A p \in Procs :
      op[p] = "restore" =>
        /\ At(log[p], "manage_container", "start") = {}
        /\ At(log[p], "docker", "start") = {}

\* The part of C11 about one step: no step of a restore adds a running
\* container.
C11_NoneStarted ==
    \A p \in Procs :
      (op[p] = "restore" /\ op'[p] = "restore" /\ active(p)) =>
        running' \subseteq running

\* C11: restore never starts the container, on any of its paths; a container
\* it killed is still stopped when it ends.
C11_RestoreNeverStarts == [](C11_NoStart) /\ [][C11_NoneStarted]_vars

\* A restore that killed the container and restored the snapshot has ended,
\* the container stopped.
C11_Witness ==
    \E p \in Procs :
      /\ op[p] = "restore" /\ pc[p] = "done" /\ ret[p] = "True"
      /\ OkAt(log[p], "docker", "kill") # {}
      /\ ContainerMatches(p) # {}
      /\ ContainerMatches(p) \cap running = {}

\* C16: an invocation that has not returned can always take its next step:
\* no external command holds it for good.
C16_EveryInvocationReturns ==
    \A p \in Procs : active(p) => ENABLED step(p)

\* C17: a restore that ended on a failed deletion hands its caller a value
\* that differs from the one of a failed restore command and from the one of
\* a restore that ended before any deletion.
C17_DistinctPartialWipe ==
    \A p \in Procs :
      (op[p] = "restore" /\ pc[p] = "done" /\ Logged(p, "Failed to delete")) =>
        /\ ret[p] # restore_return("command")
        /\ ret[p] # restore_return("kill")

\* C20: in a backup with shutdown set whose is-running query exited non-zero,
\* the container counts as not running: no stop and no start is issued, and
\* the backup command is invoked all the same.
C20_FailedQueryMeansNotRunning ==
    \A p \in Procs :
      (/\ op[p] = "backup" /\ shutdown[p]
       /\ \E i \in At(log[p], "docker ps", "") : ~log[p][i].ok) =>
        /\ ~container_was_running[p]
        /\ pc[p] \in {"b_run", "b_finally", "done", "blocked"}
        /\ \A i \in 1..Len(log[p]) :
             log[p][i].call \notin {"manage_container", "docker"}
        /\ pc[p] \in {"b_finally", "done"} => At(log[p], "backup", "client") # {}

\* Such a backup ended while the server's container was in fact running.
C20_Witness ==
    \E p \in Procs :
      /\ op[p] = "backup" /\ shutdown[p] /\ pc[p] = "done"
      /\ \E i \in At(log[p], "docker ps", "") : ~log[p][i].ok
      /\ At(log[p], "backup", "client") # {}
      /\ ContainerMatches(p) \cap running # {}

----------------------------------------------------------------------------
\* Number of fields of a schedule string: the places where a run of
\* characters other than white space begins
Fields(s) ==
    Cardinality({i \in 1..Len(s) :
                   /\ s[i] \notin whitespace
                   /\ i = 1 \/ s[i - 1] \in whitespace})

\* A schedule of five fields, each a cron expression
ValidSchedule(s) ==
    /\ Fields(s) = 5
    /\ \A i \in 1..Len(s) : s[i] \in whitespace \cup {"0", "3", "*"}

JobsOf(id) == {i \in 1..Len(jobs) : jobs[i] = id}

\* C12: once schedule_jobs has gone through the configuration, a server
\* whose schedule does not split into exactly five fields has no job, and
\* every server with a valid schedule has exactly one job under its id,
\* wherever the servers stand in the configuration.
C12_OneJobPerValidServer ==
    main_pc = "start" =>
      \A k \in 1..Len(config) :
        /\ Fields(config[k].schedule) # 5 => JobsOf(config[k].id) = {}
        /\ ValidSchedule(config[k].schedule) =>
             Cardinality(JobsOf(config[k].id)) = 1

\* Registration is over; the first server of the configuration had a
\* schedule of other than five fields, the second a valid one and its job.
C12_Witness ==
    /\ main_pc = "start"
    /\ Len(config) = 2
    /\ Fields(config[1].schedule) # 5
    /\ ValidSchedule(config[2].schedule)
    /\ jobs = <<config[2].id>>

----------------------------------------------------------------------------
\* The part of C13 about one state: while the scheduler runs and its worker
\* is free, every job can fire, whatever the one before handed back.
C13_JobsCanFire ==
    (scheduler = "running" /\ pc["sched"] = "idle") =>
      /\ jobs = <<config[1].id, config[2].id>>
      /\ \A i \in 1..Len(jobs) : ENABLED fire(jobs[i])

\* The part of C13 about one step: no step of the worker, the end of a job
\* that failed or raised included, touches the scheduler, its jobs or main.
C13_WorkerLeavesScheduler ==
    pc'["sched"] # pc["sched"] =>
      UNCHANGED <<scheduler, jobs, main_pc, shutdown_flag, handler, raising>>

\* C13: in scheduler mode a job that returns failure or raises neither
\* stops the scheduler nor keeps any job, its own later occurrences
\* included, from firing.
C13_FailureKeepsSchedulerRunning ==
    [](C13_JobsCanFire) /\ [][C13_WorkerLeavesScheduler]_vars

\* A job has ended in success after the job before it failed or raised.
C13_Witness ==
    /\ last_job \in {"False", "raised"}
    /\ scheduler = "running"
    /\ pc["sched"] = "done"
    /\ ret["sched"] = "True"

\* The part of C15 about one step: the flag is never reset; the assignment
\* of line 373 runs only while the flag is unset; an activation of the
\* handler that finds the flag set returns and changes nothing.
C15_Step ==
    /\ shutdown_flag => shutdown_flag'
    /\ (/\ handler # <<>> /\ Top(handler) = "set"
        /\ handler' # handler /\ ~raising) => ~shutdown_flag
    /\ (/\ handler # <<>> /\ Top(handler) = "test" /\ shutdown_flag
        /\ Len(handler') <= Len(handler) /\ handler' # handler) =>
          /\ handler' = Pop(handler)
          /\ UNCHANGED <<scheduler, shutdown_calls, shutdown_flag, main_pc>>

\* C15: scheduler.shutdown() is called at most once, whatever signals
\* arrive and whether or not scheduler.start() is left by an exception of
\* its own; the flag is set once and never reset.
C15_ShutdownIdempotent ==
    [](shutdown_calls <= 1 /\ (shutdown_calls = 1 => shutdown_flag))
      /\ [][C15_Step]_vars

\* Two signals were delivered, the second after the flag was set, and the
\* process has ended with a single call of scheduler.shutdown().
C15_Witness ==
    /\ signals = 2
    /\ shutdown_flag
    /\ shutdown_calls = 1
    /\ main_pc = "exited"

----------------------------------------------------------------------------
\* C18: the words the backup command is run with hold, after the fixed part,
\* exactly one pair --exclude <volume path>/<entry> per entry of
\* ignore_paths, in the order of ignore_paths.
C18_OneExcludePairPerEntry ==
    argv # <<>> =>
      /\ Len(argv) = 1 + 2 * Len(ignore_paths)
      /\ \A k \in 1..Len(ignore_paths) :
           /\ argv[2 * k] = exclude
           /\ argv[2 * k + 1] =
                container_path["cli"] \o <<"/">> \o ignore_paths[k]

----------------------------------------------------------------------------
\* The lines of an output, by the places they begin at

Breaks(s) == {i \in 1..Len(s) : s[i] = "\n"}

LineStarts(s) ==
    IF s = <<>> THEN {}
    ELSE {1} \cup {i + 1 : i \in {j \in Breaks(s) : j < Len(s)}}

LineAt(s, st) ==
    LET ends == {j \in Breaks(s) : j >= st} \cup {Len(s) + 1}
        e == CHOOSE j \in ends : \A k \in ends : j <= k
    IN  SubSeq(s, st, e - 1)

Has(sid, l) == \E i, j \in 1..Len(l) : SubSeq(l, i, j) = sid

\* The lines that hold the id, by their places, and the k-th of them
Matching(s, sid) == {st \in LineStarts(s) : Has(sid, LineAt(s, st))}

Kth(s, sid, k) ==
    LineAt(s, CHOOSE st \in Matching(s, sid) :
                Cardinality({t \in Matching(s, sid) : t < st}) = k - 1)

\* A line without the blanks before its first and after its last character
\* that is no blank
Trim(l) ==
    LET inked == {i \in 1..Len(l) : l[i] \notin whitespace} IN
    IF inked = {} THEN <<>>
    ELSE SubSeq(l, CHOOSE i \in inked : \A j \in inked : i <= j,
                   CHOOSE i \in inked : \A j \in inked : i >= j)

ListDone == pc["cli"] = "done" /\ op["cli"] = "list"

\* C19 as stated: list returns the empty sequence when the query fails and
\* when no line holds the id; when the query succeeds it returns exactly the
\* lines of the output that hold the id, in the order of the output.
C19_ExactlyMatchingLines ==
    ListDone =>
      IF returncode["cli"] # 0 THEN snapshots = <<>>
      ELSE /\ Len(snapshots) = Cardinality(Matching(stdout, server_id["cli"]))
           /\ \A k \in 1..Len(snapshots) :
                snapshots[k] = Kth(stdout, server_id["cli"], k)

\* C19 amended: as above, each returned line without its leading and
\* trailing white space.
C19_MatchingLinesStripped ==
    ListDone =>
      IF returncode["cli"] # 0 THEN snapshots = <<>>
      ELSE /\ Len(snapshots) = Cardinality(Matching(stdout, server_id["cli"]))
           /\ \A k \in 1..Len(snapshots) :
                snapshots[k] = Trim(Kth(stdout, server_id["cli"], k))

\* A listing has ended that returned two lines, of which one was written
\* with a blank before or after it.
C19_Witness ==
    /\ ListDone
    /\ returncode["cli"] = 0
    /\ Len(snapshots) = 2
    /\ \E k \in 1..2 : snapshots[k] # Kth(stdout, server_id["cli"], k)

====
